---- MODULE Spec2Model ----
(***************************************************************************)
(* Model of src/app.py: the SAR damage dashboard.                          *)
(*                                                                         *)
(* One Streamlit session is a sequence of script runs (reruns).  Every run *)
(* executes authenticate_gee (lines 9-32), lays the page out and, when the *)
(* "Run Analysis" button was pressed, the handler of lines 132-190.        *)
(* Rasters are functions from a finite set of sample locations to pixels;  *)
(* a pixel carries the Earth Engine validity (mask) bit next to its value. *)
(* Real-valued quantities are kept exact: a damage score is carried as the *)
(* fraction num/den of its SQUARE, so that t > 3.5 is 4*num > 49*den.      *)
(***************************************************************************)
EXTENDS Integers, Sequences, FiniteSets, TLC

VARIABLES
    ee_initialized,  \* st.session_state['ee_initialized']: "absent" | "True" | "False"
    ee_client,       \* the server process's ee client library is initialised
    authLog,         \* outcomes of the ee.Initialize attempts of this session
    runs,            \* script runs of the session so far
    run,             \* what the latest script run did and showed
    b_mask,          \* structure mask handed to perform_damage_test
    s_pre, s_post,   \* per-location stack summaries {'m','s','n'} of the windows
    damage,          \* raster returned by perform_damage_test
    roi,             \* AOI rectangle <<minLon, minLat, maxLon, maxLat>>
    pop,             \* population raster of the selected dataset
    impact           \* what calculate_population_impact selected and returned

vars == <<ee_initialized, ee_client, authLog, runs, run,
          b_mask, s_pre, s_post, damage, roi, pop, impact>>

----------------------------------------------------------------------------
(* Bounds of the model *)

NumLocs == 3        \* sample locations of the rasters of an analysis run
NumScoreLocs == 2   \* sample locations when the scorer is explored alone
MaxRuns == 3        \* script runs per session
MaxPop == 2         \* largest population count of one location

Locs == 1..NumLocs
ScoreLocs == 1..NumScoreLocs

----------------------------------------------------------------------------
(* Program constants.  Coordinates are degrees * 100. *)

\* t_score.gt(3.5): the threshold 3.5 = ThresholdNum / ThresholdDen
ThresholdNum == 7
ThresholdDen == 2

ukraine_bounds == <<2210, 4440, 4020, 5240>>
RegionalScale == 100
GlobalScale == 1000
\* maxPixels=1e9 of reduceRegion, in cells of the model's raster
MaxPixels == 2

----------------------------------------------------------------------------
(* Pixels *)

\* a masked pixel (no data): the value fields are not meaningful
Masked == [valid |-> FALSE, num |-> 0, den |-> 1]

Pixel(n, d) == [valid |-> TRUE, num |-> n, den |-> d]

Abs(x) == IF x < 0 THEN -x ELSE x

----------------------------------------------------------------------------
(* perform_damage_test, lines 52-65 *)

\* a division whose quotient by 0 is not 0
DivideNoZeroRule(an, ad, bn, bd) ==
    IF bn = 0 THEN [num |-> 1, den |-> 1] ELSE [num |-> an * bd, den |-> ad * bn]

\* ee.Image.divide on the fractions a = an/ad, b = bn/bd: 0 for division by 0
Divide(an, ad, bn, bd) ==
    IF bn = 0 THEN [num |-> 0, den |-> 1] ELSE [num |-> an * bd, den |-> ad * bn]

\* s_pre['m'].subtract(s_post['m']).abs()
MeanDiff(p, q) == Abs(p.m - q.m)

\* (s_pre['s'].pow(2).divide(s_pre['n'])).add(s_post['s'].pow(2).divide(s_post['n']))
\* as one fraction
VarianceSum(p, q) ==
    LET a == Divide(p.s * p.s, 1, p.n, 1)
        b == Divide(q.s * q.s, 1, q.n, 1)
    IN  [num |-> a.num * b.den + b.num * a.den, den |-> a.den * b.den]

\* the t_score pixel of one location from its two summaries.  A window with
\* no observation at the location has a masked mean, and every operation on a
\* masked operand is masked.  The score d / sqrt(v) is kept as its square
\* d^2 / v; the division is ee.Image.divide.
TScore(p, q) ==
    IF p.n = 0 \/ q.n = 0 THEN Masked
    ELSE LET d == MeanDiff(p, q)
             v == VarianceSum(p, q)
             r == Divide(d * d, 1, v.num, v.den)
         IN  Pixel(r.num, r.den)

\* the comparison t_score.gte(3.5)
GeThreshold(px) ==
    [valid |-> px.valid,
     bit |-> IF ThresholdDen * ThresholdDen * px.num
                  >= ThresholdNum * ThresholdNum * px.den THEN 1 ELSE 0]

\* t_score.gt(3.5) on the squared score: masked where t_score is
GtThreshold(px) ==
    [valid |-> px.valid,
     bit |-> IF ThresholdDen * ThresholdDen * px.num
                  > ThresholdNum * ThresholdNum * px.den THEN 1 ELSE 0]

\* image.updateMask(m): a pixel stays valid only where m is valid and non-zero
UpdateMask(px, m) == IF px.valid /\ m.valid /\ m.bit # 0 THEN px ELSE Masked

\* the raster perform_damage_test returns
perform_damage_test(mask, pre, post) ==
    [l \in DOMAIN mask |->
        LET t_score == TScore(pre[l], post[l])
        IN  UpdateMask(UpdateMask(t_score, mask[l]), GtThreshold(t_score))]

\* membership of a location in the damage mask: unmasked in the result
InDamageMask(layer, l) == layer[l].valid

----------------------------------------------------------------------------
(* Geometry.  The sample locations lie on the parallel 47.10 N, one every  *)
(* 10 degrees of longitude westwards from 37.50 E (Mariupol).              *)

Lon(l) == 4750 - 1000 * l
Lat(l) == 4710

\* a location lies in the rectangle r = <<minLon, minLat, maxLon, maxLat>>
InRect(l, r) == r[1] <= Lon(l) /\ Lon(l) <= r[3] /\ r[2] <= Lat(l) /\ Lat(l) <= r[4]

\* ee.Geometry.intersects on two rectangles
Intersects(a, b) == a[1] <= b[3] /\ b[1] <= a[3] /\ a[2] <= b[4] /\ b[2] <= a[4]

----------------------------------------------------------------------------
(* calculate_population_impact, lines 84-106 *)

RECURSIVE SumOver(_, _)
SumOver(S, f) ==
    IF S = {} THEN 0
    ELSE LET x == CHOOSE y \in S : TRUE IN f[x] + SumOver(S \ {x}, f)

\* the selection with scale_val left at 100 in the else branch
SelectPopulationOneScale(is_ukraine) ==
    IF is_ukraine THEN [dataset |-> "regional", scale |-> RegionalScale]
    ELSE [dataset |-> "global", scale |-> RegionalScale]

\* lines 89-95: the dataset and the reduction scale that goes with it
SelectPopulation(is_ukraine) ==
    IF is_ukraine THEN [dataset |-> "regional", scale |-> RegionalScale]
    ELSE [dataset |-> "global", scale |-> GlobalScale]

\* damage_layer.gt(0): masked where the layer is
GtZero(px) == [valid |-> px.valid, bit |-> IF px.num > 0 THEN 1 ELSE 0]

\* line 97: pop_image.updateMask(damage_layer.gt(0))
ImpactedPop(popr, damage_layer) ==
    [l \in DOMAIN popr |-> UpdateMask(Pixel(popr[l], 1), GtZero(damage_layer[l]))]

\* the cells of the reduction: the locations of the geometry
RegionCells(img, geom) == {l \in DOMAIN img : InRect(l, geom)}

\* lines 99-105: reduceRegion(Reducer.sum(), geometry, scale, maxPixels=1e9,
\* bestEffort=True).  Within the budget the sum runs over the valid pixels of
\* the region.  Over the budget bestEffort lets the engine reduce at a coarser
\* scale of its own choice: the value is then any of the sums a coarser grid can
\* give, none of them above the exhaustive sum.  The result is the set of the
\* values the call can return.
ReduceRegionSum(img, geom) ==
    LET cells == RegionCells(img, geom)
        exact == SumOver({l \in cells : img[l].valid}, [l \in DOMAIN img |-> img[l].num])
    IN  IF Cardinality(cells) <= MaxPixels THEN {exact} ELSE 0..exact

\* the results calculate_population_impact can return
calculate_population_impact(damage_layer, aoi, popr) ==
    LET is_ukraine == Intersects(ukraine_bounds, aoi)
        sel == SelectPopulation(is_ukraine)
        impacted_pop_image == ImpactedPop(popr, damage_layer)
    IN  {[done |-> TRUE, dataset |-> sel.dataset, scale |-> sel.scale, value |-> v] :
            v \in ReduceRegionSum(impacted_pop_image, aoi)}

NoImpact == [done |-> FALSE, dataset |-> "none", scale |-> 0, value |-> 0]

----------------------------------------------------------------------------
(* authenticate_gee, lines 9-32 *)

\* the guard "not st.session_state.get('ee_initialized')", which retries
NeedsAuthUnlessTrue(state) == state # "True"

\* line 10: 'ee_initialized' not in st.session_state
NeedsAuth(state) == state = "absent"

\* lines 12-14: the secret is missing: st.error, st.stop() ends the script run
AuthStops(secret) == NeedsAuth(ee_initialized) /\ ~secret

\* lines 16-30: the credential step; authOk is whether ee.Initialize returned
authenticate_gee(secret, authOk) ==
    IF NeedsAuth(ee_initialized) /\ secret
    THEN /\ ee_initialized' = (IF authOk THEN "True" ELSE "False")
         /\ authLog' = Append(authLog, IF authOk THEN "True" ELSE "False")
         /\ ee_client' = (ee_client \/ authOk)
    ELSE UNCHANGED <<ee_initialized, authLog, ee_client>>

----------------------------------------------------------------------------
(* The page of one script run *)

\* lines 111-114
Sidebar(state) == IF state = "True" THEN "GEE Connected" ELSE "GEE Disconnected"

NoWindows == [pre |-> 0, post |-> 0]

\* a run that st.stop() ended in authenticate_gee: nothing below line 32 ran
StoppedRun ==
    [pressed |-> FALSE, stopped |-> TRUE, sidebar |-> "none", aoi_input |-> <<>>,
     windows |-> NoWindows, calls |-> {}, outcome |-> "stopped", raisedAt |-> "none",
     count |-> -1, metric |-> "none"]

\* a run that laid the page out with the button not pressed
PageRun(state) ==
    [pressed |-> FALSE, stopped |-> FALSE, sidebar |-> Sidebar(state), aoi_input |-> <<>>,
     windows |-> NoWindows, calls |-> {}, outcome |-> "idle", raisedAt |-> "none",
     count |-> -1, metric |-> "none"]

NoRasters ==
    /\ b_mask' = <<>>
    /\ s_pre' = <<>>
    /\ s_post' = <<>>
    /\ damage' = <<>>
    /\ roi' = <<0, 0, 0, 0>>
    /\ pop' = <<>>
    /\ impact' = NoImpact

SessionStart ==
    /\ ee_initialized = "absent"
    /\ ee_client = FALSE
    /\ authLog = <<>>
    /\ runs = 0
    /\ run = [StoppedRun EXCEPT !.stopped = FALSE, !.outcome = "idle"]  \* no page yet

SessionIdle == UNCHANGED <<ee_initialized, ee_client, authLog, runs, run>>

----------------------------------------------------------------------------
(* The "Run Analysis" handler, lines 132-190 *)

\* a piece of the AOI text between two commas: a number or not
Num(v) == [num |-> TRUE, val |-> v]
Word == [num |-> FALSE, val |-> 0]

\* line 134: float(x.strip()) raises ValueError on a piece that is no number
AllNumeric(text) == \A i \in DOMAIN text : text[i].num
Coords(text) == [i \in DOMAIN text |-> text[i].val]

\* line 135: ee.Geometry.Rectangle(coords) raises unless the client library is
\* initialised and coords are four numbers; it compares no bound with another
RectangleRaises(coords, client) == ~client \/ Len(coords) # 4

\* line 151: ee.Image.constant(0).paint(buildings, 1)
Paint(buildings) ==
    [l \in Locs |-> [valid |-> TRUE, bit |-> IF l \in buildings THEN 1 ELSE 0]]

\* a test that no count satisfies
NoStructuresNever(count) == count < 0

\* line 146
NoStructures(count) == count = 0

\* lines 155-159: the summary of the two window means.  The getInfo calls can
\* raise as any remote call; a window with no observation has no 'VV' mean
\* over the AOI, and then the lookup of line 79/80 fails on getInfo or yields
\* None, on which the subtraction of line 159 raises TypeError.
SummaryRaises(n_pre, n_post, fail) == fail = "summary" \/ n_pre = 0 \/ n_post = 0

\* where the handler ends: the statement that raised (the except of line 189
\* then shows "Analysis Error"), the empty-footprint branch, or completion.
\* fail names the remote call that raises in this run, "none" when none does.
Stage(text, client, count, n_pre, n_post, fail) ==
    IF ~AllNumeric(text) THEN "parse"
    ELSE IF RectangleRaises(Coords(text), client) THEN "rectangle"
    ELSE IF fail = "count" THEN "count"
    ELSE IF NoStructures(count) THEN "no_structures"
    ELSE IF SummaryRaises(n_pre, n_post, fail) THEN "summary"
    ELSE IF fail \in {"aggregator", "export"} THEN fail
    ELSE "complete"

\* the operations the handler invoked before it ended at a stage
Calls(stage) ==
    CASE stage \in {"parse", "rectangle"} -> {}
      [] stage \in {"count", "no_structures"} -> {"fetch", "count"}
      [] stage = "summary" -> {"fetch", "count", "scorer", "summary"}
      [] stage = "aggregator" -> {"fetch", "count", "scorer", "summary", "aggregator"}
      [] OTHER -> {"fetch", "count", "scorer", "summary", "aggregator", "export"}

Outcome(stage) ==
    CASE stage = "no_structures" -> "no_structures"
      [] stage = "complete" -> "complete"
      [] OTHER -> "analysis_error"

\* lines 168-169: the metric is shown only for a truthy pop_val
Metric(pop_val) == IF pop_val # 0 THEN "Estimated People Affected" ELSE "none"

\* the imagery of one window over the AOI: n acquisitions of mean m, deviation s
Window(n, m, s) == [l \in Locs |-> IF n = 0 THEN [m |-> 0, s |-> 0, n |-> 0]
                                   ELSE [m |-> m, s |-> s, n |-> n]]

\* One script run with the button pressed.  footprints are the catalogue's
\* features, n_pre and n_post the acquisitions of the two windows over the AOI,
\* popr the population raster, fail the remote call that raises.  Where it
\* is observed the pre window has mean 8 and deviation 2 and the post window
\* mean 0 and deviation 0: a score of 4 at every location.
RunAnalysis(secret, authOk, text, footprints, n_pre, n_post, popr, fail) ==
    /\ runs < MaxRuns
    /\ runs > 0 /\ ~run.stopped              \* the button is on the page
    /\ runs' = runs + 1
    /\ authenticate_gee(secret, authOk)
    /\ IF AuthStops(secret)
       THEN run' = StoppedRun /\ NoRasters
       ELSE
         LET coords == Coords(text)
             buildings == {l \in footprints : InRect(l, coords)}
             count == Cardinality(buildings)
             stage == Stage(text, ee_client', count, n_pre, n_post, fail)
             calls == Calls(stage)
             mask == Paint(buildings)
             pre == Window(n_pre, 8, 2)
             post == Window(n_post, 0, 0)
             layer == perform_damage_test(mask, pre, post)
         IN  /\ roi' = IF stage \in {"parse", "rectangle"} THEN <<0, 0, 0, 0>> ELSE coords
             /\ IF "scorer" \in calls
                THEN /\ b_mask' = mask
                     /\ s_pre' = pre
                     /\ s_post' = post
                     /\ damage' = layer
                ELSE /\ b_mask' = <<>>
                     /\ s_pre' = <<>>
                     /\ s_post' = <<>>
                     /\ damage' = <<>>
             /\ IF stage \in {"export", "complete"}
                THEN /\ pop' = popr
                     /\ impact' \in calculate_population_impact(layer, coords, popr)
                ELSE /\ pop' = <<>>
                     /\ impact' = NoImpact
             /\ run' = [pressed |-> TRUE, stopped |-> FALSE,
                        sidebar |-> Sidebar(ee_initialized'),
                        aoi_input |-> text,
                        windows |-> [pre |-> n_pre, post |-> n_post],
                        calls |-> calls,
                        outcome |-> Outcome(stage),
                        raisedAt |-> IF Outcome(stage) = "analysis_error"
                                     THEN stage ELSE "none",
                        count |-> IF "count" \in calls /\ stage # "count"
                                  THEN count ELSE -1,
                        metric |-> Metric(impact'.value)]

\* a script run with the button not pressed: the first load of the page, or a
\* rerun after another widget changed
Rerun(secret, authOk) ==
    /\ runs < MaxRuns
    /\ runs' = runs + 1
    /\ authenticate_gee(secret, authOk)
    /\ run' = IF AuthStops(secret) THEN StoppedRun ELSE PageRun(ee_initialized')
    /\ NoRasters

\* The ee client library is module state of the server process, shared by
\* every session, while ee_initialized is per session: the ee.Initialize of
\* line 26 run by another session initialises the client for this one too.
OtherSessionInitializes ==
    /\ ~ee_client
    /\ ee_client' = TRUE
    /\ UNCHANGED <<ee_initialized, authLog, runs, run,
                   b_mask, s_pre, s_post, damage, roi, pop, impact>>

\* the AOI texts typed in an analysis run
DefaultAoi == <<Num(3745), Num(4705), Num(3765), Num(4715)>>
AoiInputs ==
    { DefaultAoi,                                            \* the default of line 130
      <<Num(500), Num(4705), Num(3765), Num(4715)>>,         \* wide, reaches Ukraine
      <<Num(500), Num(4705), Num(2000), Num(4715)>>,         \* west of Ukraine
      <<Num(3765), Num(4705), Num(3745), Num(4715)>>,        \* minLon > maxLon
      <<Num(3745), Num(4705), Num(3745), Num(4715)>>,        \* minLon = maxLon
      <<Num(3745), Num(4705), Num(3765)>>,                   \* three numbers
      <<Num(3745), Word, Num(3765), Num(4715)>> }            \* a piece that is no number

Init ==
    /\ SessionStart
    /\ b_mask = <<>>
    /\ s_pre = <<>>
    /\ s_post = <<>>
    /\ damage = <<>>
    /\ roi = <<0, 0, 0, 0>>
    /\ pop = <<>>
    /\ impact = NoImpact

\* Inputs a script run does not read are not varied: the secret and the
\* answer of ee.Initialize once ee_initialized is set, the answers of the
\* remote service the handler never asks for (it raised before, or took the
\* empty-footprint branch), the catalogue's footprints outside the AOI, which
\* filterBounds(aoi) drops.
AuthInputs == IF NeedsAuth(ee_initialized) THEN BOOLEAN ELSE {TRUE}
RemoteInputs(reads, S) == IF reads THEN S ELSE {CHOOSE x \in S : TRUE}

PressRunAnalysis ==
    \E secret \in AuthInputs, authOk \in AuthInputs, text \in AoiInputs :
      LET client == ee_client \/ (NeedsAuth(ee_initialized) /\ secret /\ authOk)
          built == AllNumeric(text) /\ ~RectangleRaises(Coords(text), client)
      IN  \E countFail \in RemoteInputs(built, {"none", "count"}) :
          \E footprints \in IF built /\ countFail = "none"
                             THEN SUBSET {l \in Locs : InRect(l, Coords(text))}
                             ELSE {{}} :
            LET scored == built /\ countFail = "none"
                          /\ ~NoStructures(Cardinality(footprints))
            IN  \E n_pre \in RemoteInputs(scored, 0..1), n_post \in RemoteInputs(scored, 0..1) :
                  LET summed == scored /\ n_pre > 0 /\ n_post > 0
                  IN  \E fail \in IF summed THEN {"none", "summary", "aggregator", "export"}
                                  ELSE {countFail} :
                      \E p \in RemoteInputs(summed /\ fail \in {"none", "export"}, {0, MaxPop}) :
                        RunAnalysis(secret, authOk, text, footprints, n_pre, n_post,
                                    [l \in Locs |-> p], fail)

Next ==
    \/ \E secret \in AuthInputs, authOk \in AuthInputs : Rerun(secret, authOk)
    \/ PressRunAnalysis
    \/ OtherSessionInitializes

Spec == Init /\ [][Next]_vars

----------------------------------------------------------------------------
(* The scorer alone: perform_damage_test applied to every bounded input *)

NoData == [m |-> 0, s |-> 0, n |-> 0]
PreSummaries == {NoData} \cup [m : {0, 8}, s : {0, 2}, n : {1, 2}]
PostSummaries == {NoData} \cup [m : {1, 8}, s : {0, 2}, n : {1}]
MaskPixels == {[valid |-> TRUE, bit |-> b] : b \in {0, 1}}

InitScorer ==
    /\ SessionStart
    /\ b_mask \in [ScoreLocs -> MaskPixels]
    /\ s_pre \in [ScoreLocs -> PreSummaries]
    /\ s_post \in [ScoreLocs -> PostSummaries]
    /\ damage = <<>>
    /\ roi = <<0, 0, 0, 0>>
    /\ pop = <<>>
    /\ impact = NoImpact

PerformDamageTest ==
    /\ damage = <<>>
    /\ damage' = perform_damage_test(b_mask, s_pre, s_post)
    /\ UNCHANGED <<b_mask, s_pre, s_post, roi, pop, impact>>
    /\ SessionIdle

NextScorer == PerformDamageTest

SpecScorer == InitScorer /\ [][NextScorer]_vars

----------------------------------------------------------------------------
(* The aggregator alone *)

LonVals == {500, 2000, 3745, 3765}
LatVals == {4705, 4715, 5300, 5400}
Rects == {r \in LonVals \X LatVals \X LonVals \X LatVals : r[1] < r[3] /\ r[2] < r[4]}
DamagePixels == {Masked, Pixel(0, 1), Pixel(16, 1)}

InitImpact ==
    /\ SessionStart
    /\ b_mask = <<>>
    /\ s_pre = <<>>
    /\ s_post = <<>>
    /\ damage \in [Locs -> DamagePixels]
    /\ roi \in Rects
    /\ pop \in [Locs -> 0..MaxPop]
    /\ impact = NoImpact

CalculatePopulationImpact ==
    /\ ~impact.done
    /\ impact' \in calculate_population_impact(damage, roi, pop)
    /\ UNCHANGED <<b_mask, s_pre, s_post, damage, roi, pop>>
    /\ SessionIdle

NextImpact == CalculatePopulationImpact

SpecImpact == InitImpact /\ [][NextImpact]_vars

----------------------------------------------------------------------------
(* Properties *)

\* the score the code computes at a location is strictly above 3.5
ScoreAboveThreshold(l) ==
    LET t == TScore(s_pre[l], s_post[l])
    IN  t.valid /\ 4 * t.num > 49 * t.den

\* C1: a location is in the damage mask (unmasked in the raster returned by
\* perform_damage_test) iff its structure mask is 1 and its damage score is
\* strictly above 3.5; there it carries that score; so no location with
\* structure mask 0, and none whose score is exactly 3.5, is in the mask.
DamageMaskIffStructureAndAbove ==
    damage # <<>> =>
        \A l \in DOMAIN damage :
            /\ InDamageMask(damage, l) <=> (b_mask[l].bit = 1 /\ ScoreAboveThreshold(l))
            /\ InDamageMask(damage, l) => damage[l] = TScore(s_pre[l], s_post[l])

\* a location in the mask beside a structure location whose score is exactly
\* 3.5 (8 against 1 with deviations 2 and 0, one observation each), left out
DamageMaskWitness ==
    /\ damage # <<>>
    /\ \E l1, l2 \in DOMAIN damage :
        /\ InDamageMask(damage, l1)
        /\ b_mask[l2].bit = 1
        /\ TScore(s_pre[l2], s_post[l2]) = Pixel(49, 4)
        /\ ~InDamageMask(damage, l2)

\* C9: where both windows have observations and mean_pre = mean_post the
\* damage score is 0, whatever the deviations and counts, both deviations 0
\* included, and the location is not in the damage mask.
EqualMeansScoreZero ==
    damage # <<>> =>
        \A l \in DOMAIN damage :
            (s_pre[l].n >= 1 /\ s_post[l].n >= 1 /\ s_pre[l].m = s_post[l].m) =>
                /\ TScore(s_pre[l], s_post[l]).valid
                /\ TScore(s_pre[l], s_post[l]).num = 0
                /\ ~InDamageMask(damage, l)

\* a structure location with equal means and both deviations 0
EqualMeansWitness ==
    /\ damage # <<>>
    /\ \E l \in DOMAIN damage :
        /\ b_mask[l].bit = 1
        /\ s_pre[l].n = 1 /\ s_post[l].n = 1
        /\ s_pre[l].m = s_post[l].m
        /\ s_pre[l].s = 0 /\ s_post[l].s = 0
        /\ ~InDamageMask(damage, l)

\* the AOI shares a point with the rectangle [22.1, 44.4, 40.2, 52.4]
TouchesUkraine(r) == r[1] <= 4020 /\ 2210 <= r[3] /\ r[2] <= 5240 /\ 4440 <= r[4]

\* C6: calculate_population_impact reduces the regional raster at scale 100
\* iff the AOI intersects [22.1, 44.4, 40.2, 52.4], and the global raster at
\* scale 1000 otherwise: one of the two pairs, the scale matching the dataset.
PopulationSourceByGeofence ==
    impact.done =>
        /\ TouchesUkraine(roi) <=> (impact.dataset = "regional" /\ impact.scale = 100)
        /\ ~TouchesUkraine(roi) <=> (impact.dataset = "global" /\ impact.scale = 1000)

\* the AOI [37.45, 47.05, 37.65, 47.15] reduced on the regional raster
PopulationSourceWitness ==
    /\ impact.done
    /\ roi = <<3745, 4705, 3765, 4715>>
    /\ impact.dataset = "regional"
    /\ impact.scale = 100

\* the population of the locations of the AOI that are in the damage mask
ExpectedImpact ==
    SumOver({l \in DOMAIN pop : InRect(l, roi) /\ damage[l].valid /\ damage[l].num > 0},
            pop)

\* C7: the value calculate_population_impact returns is the sum of the
\* population raster over exactly the locations inside the AOI with
\* DamageMask = 1.
ImpactIsSumOverDamagedAoi == impact.done => impact.value = ExpectedImpact

\* C2: a run in which the footprint provider returned zero features reports
\* "No structures found" and invokes neither perform_damage_test nor
\* calculate_population_impact.
EmptyFootprintsSkipScorerAndAggregator ==
    (run.pressed /\ run.count = 0) =>
        /\ run.outcome = "no_structures"
        /\ run.calls \cap {"scorer", "summary", "aggregator", "export"} = {}
        /\ damage = <<>>
        /\ ~impact.done

EmptyFootprintsWitness ==
    /\ run.pressed
    /\ "count" \in run.calls
    /\ run.count = 0
    /\ run.outcome = "no_structures"

\* C3: a run whose pre or post window holds no observation ends in an
\* insufficient-data error without invoking the scorer (no score, no division
\* by the sample count).
EmptyWindowEndsInsufficientData ==
    (run.pressed /\ run.count > 0 /\ (run.windows.pre = 0 \/ run.windows.post = 0)) =>
        /\ run.outcome = "insufficient_data"
        /\ "scorer" \notin run.calls

\* four numeric bounds with minLon < maxLon and minLat < maxLat
WellFormedAoi(text) ==
    /\ Len(text) = 4
    /\ AllNumeric(text)
    /\ text[1].val < text[3].val
    /\ text[2].val < text[4].val

\* C4: a run whose AOI text is not four numeric bounds, or whose bounds are
\* degenerate, reports an input error and attempts no remote call.
MalformedAoiNoRemoteCall ==
    (run.pressed /\ ~WellFormedAoi(run.aoi_input)) =>
        /\ run.outcome = "analysis_error"
        /\ run.raisedAt \in {"parse", "rectangle"}
        /\ run.calls = {}

\* C5: in a session whose ee_initialized is not True no run reaches the
\* footprint fetch, the scorer or the aggregator.
DisconnectedSessionNoAnalysis ==
    ee_initialized # "True" => run.calls \cap {"fetch", "scorer", "aggregator"} = {}

\* C8: a non-exhaustive (over budget, best effort) population sum is never
\* shown as an unqualified "Estimated People Affected" figure.
OverBudgetEstimateLabelled ==
    (/\ run.pressed
     /\ impact.done
     /\ Cardinality({l \in Locs : InRect(l, roi)}) > MaxPixels
     /\ impact.value # ExpectedImpact
     /\ run.metric # "none") =>
        run.metric # "Estimated People Affected"

\* C10: ee.Initialize is attempted at most once in a session, and
\* ee_initialized stays what that attempt made it: a failure is not retried
\* and False never becomes True.
AuthAttemptedAtMostOnce ==
    /\ Len(authLog) <= 1
    /\ Len(authLog) = 1 => ee_initialized = authLog[1]

\* the button pressed in a later run of a session whose one attempt failed
AuthNotRetriedWitness ==
    /\ authLog = <<"False">>
    /\ ee_initialized = "False"
    /\ runs >= 2
    /\ run.pressed

====
